---- MODULE Spec2Model ----
(***************************************************************************)
(* Pressure Framework: the report formatter's scoring and alerting engine  *)
(* (format_report.py: model_avg, compute, check_thresholds) and the feed   *)
(* scanner's persisted state (feed_scanner.py: monitors.json and           *)
(* seen_hashes.json).                                                      *)
(*                                                                         *)
(* Representation.                                                         *)
(*  - A Python dict is a sequence of <<key, value>> pairs with distinct    *)
(*    keys, in insertion order (the order json.loads gives and the order   *)
(*    .items() and .values() iterate in).                                  *)
(*  - An axis score is <<n>> for the number n and <<>> for null (None).    *)
(*  - Averages, the composite, the secondary index and the limits of a     *)
(*    threshold set are counted in hundredths (6.0 is 600, 8.5 is 850):    *)
(*    every one of them is a float rounded to 2 decimals or a literal      *)
(*    with at most 2 decimals, and comparing two such floats orders them   *)
(*    as their counts of hundredths.  Raw axis scores stay integers.       *)
(*  - The composite is round(x, 2) of a sum of binary floating-point       *)
(*    products.  Where the exact sum lies strictly between two hundredths  *)
(*    the float rounds as the exact sum does; where the exact sum is       *)
(*    halfway (x.xx5) the float sum lies on either side of the tie, and    *)
(*    tieUp holds the side; either is possible.                            *)
(*  - before is a history variable: how the input of the last call         *)
(*    relates to the input of the call before it, with that call's         *)
(*    results.                                                             *)
(*  - monitors is the "monitors" list of monitors.json and seen the        *)
(*    "hashes" list of seen_hashes.json; a file that does not exist yet    *)
(*    loads as the empty list.  removed, appended, distinct, lastText and  *)
(*    checked are history variables.                                       *)
(***************************************************************************)
EXTENDS Integers, Sequences, FiniteSets

VARIABLES data, thresholds, comp, alerts, calls, tieUp, before,
          monitors, removed,
          seen, appended, distinct, lastText, checked, found

vars == <<data, thresholds, comp, alerts, calls, tieUp, before,
          monitors, removed,
          seen, appended, distinct, lastText, checked, found>>

reportVars == <<data, thresholds, comp, alerts, calls, tieUp, before>>
monitorVars == <<monitors, removed>>
seenVars == <<seen, appended, distinct, lastText, checked, found>>

(***************************************************************************)
(* Python dict, list and number helpers                                    *)
(***************************************************************************)
None == <<>>

Num(n) == <<n>>

Has(d, k) == \E i \in 1..Len(d) : d[i][1] = k

\* dict.get(k, default)
Get(d, k, default) ==
  IF Has(d, k) THEN d[CHOOSE i \in 1..Len(d) : d[i][1] = k][2] ELSE default

\* d[k] = v: an existing key keeps its position, a new key goes last
Put(d, k, v) ==
  IF Has(d, k)
    THEN [i \in 1..Len(d) |-> IF d[i][1] = k THEN <<k, v>> ELSE d[i]]
    ELSE Append(d, <<k, v>>)

\* position of a key in an ordered dict (0 when absent)
IndexOf(d, k) == IF Has(d, k) THEN CHOOSE i \in 1..Len(d) : d[i][1] = k ELSE 0

\* F(x), with x worked out once and bound as a value
With(x, F(_)) == CHOOSE r \in {F(v) : v \in {x}} : TRUE

RECURSIVE SumSeq(_)
SumSeq(s) == IF s = <<>> THEN 0 ELSE Head(s) + SumSeq(Tail(s))

RECURSIVE Concat(_)
Concat(ss) == IF ss = <<>> THEN <<>> ELSE Head(ss) \o Concat(Tail(ss))

\* round(n / d) to the nearest integer, a tie going to the even neighbour
\* (n >= 0, d > 0)
RoundDiv(n, d) ==
  LET q == n \div d
      r == n % d
  IN  IF 2 * r < d THEN q
      ELSE IF 2 * r > d THEN q + 1
      ELSE IF q % 2 = 0 THEN q ELSE q + 1

\* round(n / d) of a float n / d that is exact except at a tie, where it lies
\* above the tie (up) or below it
RoundFloat(n, d, up) ==
  LET q == n \div d
      r == n % d
  IN  IF 2 * r < d THEN q
      ELSE IF 2 * r > d THEN q + 1
      ELSE IF up THEN q + 1 ELSE q

(***************************************************************************)
(* format_report.py: the static tables                                     *)
(***************************************************************************)
MODELS ==
  << <<"soram", [name |-> "SORAM", axes |->
        << <<"S", "Societal">>, <<"O", "Operational">>, <<"R", "Regulatory">>,
           <<"A", "Alignment">>, <<"M", "Media">> >>]>>,
     <<"prism", [name |-> "PRISM", axes |->
        << <<"P", "Precursor">>, <<"R", "Repetition">>, <<"I", "Villains">>,
           <<"S", "Symbolism">>, <<"M", "Urgency">> >>]>>,
     <<"narcs", [name |-> "NARCS", axes |->
        << <<"N", "Narrative">>, <<"A", "Authority">>, <<"R", "Historical">>,
           <<"C", "CogLoad">>, <<"S", "Inversion">> >>]>>,
     <<"trapn", [name |-> "TRAP-N", axes |->
        << <<"T", "Tension">>, <<"R", "Rally">>, <<"A", "Authority">>,
           <<"P", "Polarise">>, <<"N", "Normalise">> >>]>>,
     <<"fate", [name |-> "FATE", axes |->
        << <<"F", "Focus">>, <<"A", "Authority">>, <<"T", "Tribe">>,
           <<"E", "Emotion">> >>]>>,
     <<"sixaxis", [name |-> "6-Axis", axes |->
        << <<"focus", "Focus">>, <<"openness", "Openness">>,
           <<"connection", "Connection">>, <<"suggestibility", "Suggestib.">>,
           <<"compliance", "Compliance">>, <<"expectancy", "Expectancy">> >>]>> >>

\* weights in hundredths
WEIGHTS ==
  << <<"soram", 25>>, <<"prism", 20>>, <<"narcs", 25>>, <<"trapn", 15>>,
     <<"fate", 10>>, <<"sixaxis", 5>> >>

TRAPN_LABELS ==
  << <<"T", "TENSION BUILDING">>, <<"R", "RALLY PHASE">>,
     <<"A", "AUTHORITY CONSOLIDATION">>, <<"P", "POLARISATION ACTIVE">>,
     <<"N", "NORMALISATION UNDERWAY">> >>

\* the thresholds check_thresholds uses when none are passed
DefaultThresholds ==
  [overall_pressure |-> 600, ppi_score |-> 600,
   any_single_axis |-> 800, model_average |-> 700]

(***************************************************************************)
(* format_report.py: model_avg and compute                                 *)
(***************************************************************************)
\* vals = [v for v in scores.values() if v is not None]
NonNullVals(scores) ==
  LET RECURSIVE Pick(_)
      Pick(d) == IF d = <<>> THEN <<>>
                 ELSE IF Head(d)[2] = None THEN Pick(Tail(d))
                 ELSE <<Head(d)[2][1]>> \o Pick(Tail(d))
  IN  Pick(scores)

\* model_avg keeping only the truthy scores (if v), so that a score of 0 is
\* left out of the mean as a null is
model_avg_truthy(scores) ==
  LET RECURSIVE Pick(_)
      Pick(d) == IF d = <<>> THEN <<>>
                 ELSE IF Head(d)[2] = None \/ Head(d)[2] = Num(0) THEN Pick(Tail(d))
                 ELSE <<Head(d)[2][1]>> \o Pick(Tail(d))
      vals == Pick(scores)
  IN  IF vals # <<>> THEN RoundDiv(100 * SumSeq(vals), Len(vals)) ELSE 0

\* round(sum(vals) / len(vals), 2) if vals else 0, in hundredths
model_avg(scores) ==
  LET vals == NonNullVals(scores)
  IN  IF vals # <<>> THEN RoundDiv(100 * SumSeq(vals), Len(vals)) ELSE 0

\* averages = {k: model_avg(scores.get(k, {})) for k in MODELS}
Averages(scores) ==
  [i \in 1..Len(MODELS) |-> <<MODELS[i][1], model_avg(Get(scores, MODELS[i][1], <<>>))>>]

\* sum(averages.get(k, 0) * w for k, w in WEIGHTS.items()), in ten-thousandths
WeightedSum(averages) ==
  SumSeq([i \in 1..Len(WEIGHTS) |-> Get(averages, WEIGHTS[i][1], 0) * WEIGHTS[i][2]])

\* the key max() compares by: x[1] if x[1] else 0
TruthyOrZero(v) == IF v = None THEN 0 ELSE v[1]

\* max(trapn_scores.items(), key=...): the first item, in the dict's own
\* order, whose key is the largest
MaxItem(items) ==
  items[CHOOSE i \in 1..Len(items) :
          /\ \A j \in 1..Len(items) : TruthyOrZero(items[j][2]) <= TruthyOrZero(items[i][2])
          /\ \A j \in 1..(i - 1) : TruthyOrZero(items[j][2]) < TruthyOrZero(items[i][2])]

\* Dominant without the floor (if top[1] and top[1] > 0)
DominantNoFloor(scores) ==
  LET trapn_scores == Get(scores, "trapn", <<>>)
  IN  IF trapn_scores = <<>> THEN None
      ELSE LET top == MaxItem(trapn_scores)
           IN  <<top[1], Get(TRAPN_LABELS, top[1], "?")>>

\* the dominant TRAP-N phase: <<axis key, label>>, or None
Dominant(scores) ==
  LET trapn_scores == Get(scores, "trapn", <<>>)
  IN  IF trapn_scores = <<>> THEN None
      ELSE LET top == MaxItem(trapn_scores)
           IN  IF top[2] # None /\ top[2][1] > 0
                 THEN <<top[1], Get(TRAPN_LABELS, top[1], "?")>>
                 ELSE None

\* the verdict text, its dash written "-"
Verdict(overall) ==
  IF overall >= 700 THEN "HIGH PRESSURE - conditions ripe for influence operation"
  ELSE IF overall >= 400 THEN "MODERATE PRESSURE - monitor closely, seeding possible"
  ELSE "LOW PRESSURE - organic activity likely"

\* Level with > in place of >=
LevelAbove(overall) ==
  IF overall > 700 THEN "high"
  ELSE IF overall > 400 THEN "moderate"
  ELSE "low"

Level(overall) ==
  IF overall >= 700 THEN "high"
  ELSE IF overall >= 400 THEN "moderate"
  ELSE "low"

compute(d) ==
  LET scores == Get(d, "scores", <<>>)
      Classified(averages, overall) ==
        [averages |-> averages,
         ppi |-> Get(averages, "narcs", 0),
         overall |-> overall,
         dominant_trapn |-> Dominant(scores),
         verdict |-> Verdict(overall),
         level |-> Level(overall)]
      Weighted(averages) ==
        LET Rounded(overall) == Classified(averages, overall)
        IN  With(RoundFloat(WeightedSum(averages), 100, tieUp), Rounded)
  IN  With(Averages(scores), Weighted)

(***************************************************************************)
(* format_report.py: check_thresholds.  An alert's message is kept as its  *)
(* parts: the model's display name, the axis key, the axis display name    *)
(* and the value printed ("" where the message has no such part).          *)
(***************************************************************************)
Alert(type, level, model, axis, label, value) ==
  [type |-> type, level |-> level, model |-> model, axis |-> axis,
   label |-> label, value |-> value]

OverallAlert(c, th) ==
  IF c.overall >= th.overall_pressure
    THEN <<Alert("overall", IF c.overall >= 800 THEN "critical" ELSE "warning",
                 "", "", "", c.overall)>>
    ELSE <<>>

PpiAlert(c, th) ==
  IF c.ppi >= th.ppi_score
    THEN <<Alert("ppi", IF c.ppi >= 800 THEN "critical" ELSE "warning",
                 "", "", "", c.ppi)>>
    ELSE <<>>

\* AxisAlerts with > in place of >= on the per-axis limit
AxisAlertsAbove(mdef, ms, th) ==
  LET RECURSIVE Scan(_)
      Scan(items) ==
        IF items = <<>> THEN <<>>
        ELSE LET ak == Head(items)[1]
                 v == Head(items)[2]
             IN  (IF v # None /\ 100 * v[1] > th.any_single_axis
                    THEN <<Alert("axis", IF v[1] >= 9 THEN "critical" ELSE "warning",
                                 mdef.name, ak, Get(mdef.axes, ak, ak), v[1])>>
                    ELSE <<>>)
                 \o Scan(Tail(items))
  IN  Scan(ms)

\* for ak, v in ms.items(): the per-axis alerts of one model, in the input's order
AxisAlerts(mdef, ms, th) ==
  LET RECURSIVE Scan(_)
      Scan(items) ==
        IF items = <<>> THEN <<>>
        ELSE LET ak == Head(items)[1]
                 v == Head(items)[2]
             IN  (IF v # None /\ 100 * v[1] >= th.any_single_axis
                    THEN <<Alert("axis", IF v[1] >= 9 THEN "critical" ELSE "warning",
                                 mdef.name, ak, Get(mdef.axes, ak, ak), v[1])>>
                    ELSE <<>>)
                 \o Scan(Tail(items))
  IN  Scan(ms)

\* ModelAlert with the critical boundary 1.5 above the caller's limit
ModelAlertRelative(mdef, avg, th) ==
  IF avg >= th.model_average
    THEN <<Alert("model", IF avg >= th.model_average + 150 THEN "critical" ELSE "warning",
                 mdef.name, "", "", avg)>>
    ELSE <<>>

ModelAlert(mdef, avg, th) ==
  IF avg >= th.model_average
    THEN <<Alert("model", IF avg >= 850 THEN "critical" ELSE "warning",
                 mdef.name, "", "", avg)>>
    ELSE <<>>

\* PerModelAlerts with the average alert appended before the axis alerts
PerModelAlertsAverageFirst(mdef, ms, avg, th) ==
  ModelAlert(mdef, avg, th) \o AxisAlerts(mdef, ms, th)

\* one pass of the loop over MODELS: the model's axis alerts, then its
\* average alert
PerModelAlerts(mdef, ms, avg, th) ==
  AxisAlerts(mdef, ms, th) \o ModelAlert(mdef, avg, th)

\* the body of check_thresholds after comp = compute(data)
AlertsFor(c, scores, loop, th) ==
  OverallAlert(c, th) \o PpiAlert(c, th) \o
  Concat([i \in 1..Len(loop) |->
            LET Pass(avg) == PerModelAlerts(loop[i][2], Get(scores, loop[i][1], <<>>), avg, th)
            IN  With(Get(c.averages, loop[i][1], 0), Pass)])

\* LoopModels visiting the models of the input (for mk in scores), a model
\* the registry does not declare going by its key
LoopModelsOfInput(scores) ==
  [i \in 1..Len(scores) |->
     <<scores[i][1], Get(MODELS, scores[i][1], [name |-> scores[i][1], axes |-> <<>>])>>]

\* the models the loop visits, in order: for mk, mdef in MODELS.items()
LoopModels(scores) == MODELS

check_thresholds(d, th) ==
  LET scores == Get(d, "scores", <<>>)
      Checked(c) == AlertsFor(c, scores, LoopModels(scores), th)
  IN  With(compute(d), Checked)

(***************************************************************************)
(* The inputs: a first input, then each later call rescoring one axis of   *)
(* the previous input or passing another threshold set.                    *)
(***************************************************************************)
\* evaluations after the first one
MaxCalls == 2

\* every registry model with its first two axes scored n, in registry order
Uniform(n) ==
  << <<"scores",
       [i \in 1..Len(MODELS) |->
          <<MODELS[i][1],
            [j \in 1..2 |-> <<MODELS[i][2].axes[j][1], Num(n)>>]>>]>> >>

\* no "scores" field, an empty one, and three uniform inputs
FirstInputs ==
  {<<>>, << <<"scores", <<>>>> >>} \cup {Uniform(n) : n \in {4, 7, 9}}

\* the <<model, axis, score>> a call sets: null or a number within [0, 10];
\* "zz" is an axis and "other" a model the registry does not declare
Rescorings ==
  ({<<"trapn", "T">>} \X {None, Num(0), Num(8), Num(9)})
  \cup ({<<"trapn", "R">>} \X {Num(0), Num(8), Num(9)})
  \cup ({<<"trapn", "zz">>} \X {Num(9)})
  \cup ({<<"narcs", "N">>, <<"other", "x">>} \X {Num(0), Num(9)})

LenientThresholds ==
  [overall_pressure |-> 300, ppi_score |-> 300,
   any_single_axis |-> 400, model_average |-> 300]

StrictThresholds ==
  [overall_pressure |-> 850, ppi_score |-> 850,
   any_single_axis |-> 900, model_average |-> 900]

ThresholdSets == {DefaultThresholds, LenientThresholds, StrictThresholds}

\* the input d with scores[mk][ak] = v
WithScore(d, mk, ak, v) ==
  LET scores == Get(d, "scores", <<>>)
  IN  Put(d, "scores", Put(scores, mk, Put(Get(scores, mk, <<>>), ak, v)))

\* d2 is d1 with exactly one axis score of one registry model raised: the same
\* models and axes in the same order, one score numeric in both and larger in d2
RaisedOneAxis(d1, d2) ==
  LET s1 == Get(d1, "scores", <<>>)
      s2 == Get(d2, "scores", <<>>)
      Differ == {<<i, j>> \in (1..Len(s1)) \X (1..6) :
                   j <= Len(s1[i][2]) /\ s1[i][2][j] # s2[i][2][j]}
  IN  /\ Has(d1, "scores") = Has(d2, "scores")
      /\ Len(s1) = Len(s2)
      /\ \A i \in 1..Len(s1) :
            /\ s1[i][1] = s2[i][1]
            /\ Len(s1[i][2]) = Len(s2[i][2])
            /\ Len(s1[i][2]) <= 6
            /\ \A j \in 1..Len(s1[i][2]) : s1[i][2][j][1] = s2[i][2][j][1]
      /\ Cardinality(Differ) = 1
      /\ \A p \in Differ :
            /\ Has(MODELS, s1[p[1]][1])
            /\ s1[p[1]][2][p[2]][2] # None
            /\ s2[p[1]][2][p[2]][2] # None
            /\ s1[p[1]][2][p[2]][2][1] < s2[p[1]][2][p[2]][2][1]

\* d1 and d2 differ, and only under models the registry does not declare
OnlyUnregisteredDiffer(d1, d2) ==
  LET s1 == Get(d1, "scores", <<>>)
      s2 == Get(d2, "scores", <<>>)
  IN  /\ d1 # d2
      /\ \A i \in 1..Len(MODELS) :
            /\ Has(s1, MODELS[i][1]) = Has(s2, MODELS[i][1])
            /\ Get(s1, MODELS[i][1], <<>>) = Get(s2, MODELS[i][1], <<>>)

NoRelation == [rel |-> "none", comp |-> <<>>, alerts |-> <<>>]

Relation(d1, d2, c, al) ==
  IF RaisedOneAxis(d1, d2) THEN [rel |-> "raised", comp |-> c, alerts |-> al]
  ELSE IF OnlyUnregisteredDiffer(d1, d2) THEN [rel |-> "unregistered", comp |-> c, alerts |-> al]
  ELSE NoRelation

ReportInit ==
  /\ data \in FirstInputs
  /\ thresholds = DefaultThresholds
  /\ comp = compute(data)
  /\ alerts = check_thresholds(data, thresholds)
  /\ calls = 0
  /\ tieUp \in BOOLEAN
  /\ before = NoRelation

\* check_thresholds(d, thresholds) on the previous input with one axis rescored
Rescore(mk, ak, v) ==
  /\ calls < MaxCalls
  /\ data' = WithScore(data, mk, ak, v)
  /\ data' # data
  /\ comp' = compute(data')
  /\ alerts' = check_thresholds(data', thresholds)
  /\ calls' = calls + 1
  /\ before' = Relation(data, data', comp, alerts)
  /\ UNCHANGED <<thresholds, tieUp>>

\* check_thresholds(data, th) on the same input with another threshold set
Retune(th) ==
  /\ th # thresholds
  /\ thresholds' = th
  /\ comp' = compute(data)
  /\ alerts' = check_thresholds(data, th)
  /\ before' = NoRelation
  /\ UNCHANGED <<data, calls, tieUp>>

(***************************************************************************)
(* feed_scanner.py: the monitor registry                                   *)
(***************************************************************************)
\* monitors the registry may hold at once
MaxMonitors == 3

\* f"{idx:03d}": the decimal digits of idx, zero-padded to three
RECURSIVE DecimalDigits(_)
DecimalDigits(n) == IF n < 10 THEN <<n>> ELSE Append(DecimalDigits(n \div 10), n % 10)

Format03d(idx) ==
  LET ds == DecimalDigits(idx)
  IN  IF Len(ds) >= 3 THEN ds ELSE [i \in 1..(3 - Len(ds)) |-> 0] \o ds

\* monitor_id = f"monitor-{idx:03d}"
MonitorId(idx) == <<"monitor-">> \o Format03d(idx)

Topics == {"digital ID", "energy"}

\* the source lists of a new monitor, by whether feeds and keywords are given
SourcesOf(topic, feeds, keywords) ==
  (IF feeds THEN {"blogwatcher"} ELSE {}) \cup
  (IF keywords THEN {"bird"} ELSE {}) \cup
  (IF ~feeds /\ ~keywords THEN {"web_search"} ELSE {})

\* the "monitors" list after add_monitor(topic, feeds, keywords)
add_monitor(ms, topic, feeds, keywords) ==
  LET idx == Len(ms) + 1
      monitor == [id |-> MonitorId(idx), topic |-> topic,
                  sources |-> SourcesOf(topic, feeds, keywords)]
  IN  Append(ms, monitor)

\* the "monitors" list after remove_monitor(monitor_id)
remove_monitor(ms, monitor_id) ==
  LET RECURSIVE Keep(_)
      Keep(l) == IF l = <<>> THEN <<>>
                 ELSE IF Head(l).id # monitor_id THEN <<Head(l)>> \o Keep(Tail(l))
                 ELSE Keep(Tail(l))
  IN  Keep(ms)

AddMonitor(topic, feeds, keywords) ==
  /\ Len(monitors) < MaxMonitors
  /\ monitors' = add_monitor(monitors, topic, feeds, keywords)
  /\ removed' = 0

RemoveMonitor(monitor_id) ==
  /\ monitors' = remove_monitor(monitors, monitor_id)
  /\ removed' = Len(monitors) - Len(monitors')

MonitorsInit == monitors = <<>> /\ removed = 0

(***************************************************************************)
(* feed_scanner.py: the seen-hash store                                    *)
(***************************************************************************)
MAX_SEEN == 500

\* distinct texts marked, and marks that appended a hash
MaxTexts == 502

MaxAppends == 503

\* how many of the oldest and of the newest texts are marked again
Recall == 1

\* a text is <<padding, body>>: surrounding whitespace or none, and the rest
Paddings == {"", " "}

\* text.strip()
Strip(text) == <<"", text[2]>>

\* sha256(text.strip().encode("utf-8")).hexdigest()[:16]: texts hash alike
\* exactly when they are the same once stripped
content_hash(text) == <<"sha256", Strip(text)[2]>>

Contains(l, x) == \E i \in 1..Len(l) : l[i] = x

\* save_seen keeping the first MAX_SEEN hashes (hashes[:MAX_SEEN])
save_seen_oldest(hashes) ==
  IF Len(hashes) > MAX_SEEN THEN SubSeq(hashes, 1, MAX_SEEN) ELSE hashes

\* the "hashes" list save_seen writes
save_seen(hashes) ==
  IF Len(hashes) > MAX_SEEN
    THEN SubSeq(hashes, Len(hashes) - MAX_SEEN + 1, Len(hashes))
    ELSE hashes

\* check_seen(text) on the stored list
check_seen(hashes, text) == Contains(hashes, content_hash(text))

\* the stored list after mark_seen(text)
mark_seen(hashes, text) ==
  LET h == content_hash(text)
  IN  IF ~Contains(hashes, h) THEN save_seen(Append(hashes, h)) ELSE hashes

\* Texts are numbered in the order they are first marked.  mark_seen is
\* passed the next new text, or again one of the oldest or newest few;
\* check_seen is passed the text marked last, with either padding, the oldest
\* text or a text never marked.
KnownTexts ==
  {n \in 1..distinct : n <= Recall \/ n > distinct - Recall}

CheckedTexts ==
  (IF lastText = <<>> THEN {} ELSE {<<pad, lastText[2]>> : pad \in Paddings})
  \cup {<<"", n>> : n \in {1, distinct + 1}}

MarkSeen(text) ==
  /\ text[2] <= MaxTexts
  /\ Contains(seen, content_hash(text)) \/ Len(appended) < MaxAppends
  /\ seen' = mark_seen(seen, text)
  /\ appended' = IF Contains(seen, content_hash(text)) THEN appended
                  ELSE Append(appended, content_hash(text))
  /\ distinct' = IF text[2] > distinct THEN text[2] ELSE distinct
  /\ lastText' = text
  /\ checked' = <<>>
  /\ found' = FALSE

CheckSeen(text) ==
  /\ found' = check_seen(seen, text)
  /\ checked' = text
  /\ UNCHANGED <<seen, appended, distinct, lastText>>

SeenInit ==
  /\ seen = <<>> /\ appended = <<>> /\ distinct = 0
  /\ lastText = <<>> /\ checked = <<>> /\ found = FALSE

(***************************************************************************)
(* Specifications: the report engine, the monitor registry, the seen store *)
(***************************************************************************)
Init == ReportInit /\ MonitorsInit /\ SeenInit

Next ==
  \/ \E r \in Rescorings :
       Rescore(r[1][1], r[1][2], r[2]) /\ UNCHANGED <<monitorVars, seenVars>>
  \/ \E th \in ThresholdSets : Retune(th) /\ UNCHANGED <<monitorVars, seenVars>>

Spec == Init /\ [][Next]_vars

ReportIdle ==
  /\ data = <<>> /\ thresholds = DefaultThresholds /\ tieUp = FALSE
  /\ comp = compute(data) /\ alerts = <<>> /\ calls = 0 /\ before = NoRelation

MonitorsNext ==
  \/ \E topic \in Topics, feeds \in BOOLEAN, keywords \in BOOLEAN :
       AddMonitor(topic, feeds, keywords) /\ UNCHANGED <<reportVars, seenVars>>
  \/ \E idx \in 1..MaxMonitors :
       RemoveMonitor(MonitorId(idx)) /\ UNCHANGED <<reportVars, seenVars>>

FeedInit == ReportIdle /\ MonitorsInit /\ SeenInit

SpecMonitors == FeedInit /\ [][MonitorsNext]_vars

SeenNext ==
  \/ \E n \in KnownTexts \cup {distinct + 1}, pad \in Paddings :
       MarkSeen(<<pad, n>>) /\ UNCHANGED <<reportVars, monitorVars>>
  \/ \E text \in CheckedTexts :
       CheckSeen(text) /\ UNCHANGED <<reportVars, monitorVars>>

SpecSeen == FeedInit /\ [][SeenNext]_vars

(***************************************************************************)
(* Properties of the scoring and alerting engine                           *)
(***************************************************************************)
Scores == Get(data, "scores", <<>>)

\* the positions of the alerts that satisfy P
AlertsWhere(P(_)) == {i \in 1..Len(alerts) : P(alerts[i])}

\* C1: when two or more registry axes of the trapn scores share the maximum,
\* positive score, the dominant phase is the tied axis declared earliest in
\* the registry order T, R, A, P, N, whatever the order of the axes in the input.
PhaseTieBreakRegistryOrder ==
  LET trapn == Get(Scores, "trapn", <<>>)
      Numeric == {i \in 1..Len(trapn) : trapn[i][2] # None}
      Top == {i \in Numeric : \A j \in Numeric : trapn[j][2][1] <= trapn[i][2][1]}
      tied == {trapn[i][1] : i \in Top}
      first == CHOOSE k \in tied : \A o \in tied : IndexOf(TRAPN_LABELS, k) <= IndexOf(TRAPN_LABELS, o)
  IN  ( /\ Cardinality(tied) >= 2
        /\ \A k \in tied : Has(TRAPN_LABELS, k)
        /\ \A i \in Top : trapn[i][2][1] > 0 )
      => comp.dominant_trapn = <<first, Get(TRAPN_LABELS, first, "?")>>

\* C2: the alerts are exactly: one overall alert iff the composite reaches
\* the overall limit; one ppi alert iff the narcs average reaches the
\* secondary limit; one axis alert for each registry model and each axis of
\* that model's input whose non-null score reaches the per-axis limit; one
\* model alert for each registry model whose average reaches the per-model
\* limit; and nothing else, with no alert dropped as a duplicate of another.
AlertsExactlyTheFourRules ==
  LET IsOverall(a) == a.type = "overall"
      IsPpi(a) == a.type = "ppi"
      Due == {<<i, j>> \in (1..Len(MODELS)) \X (1..7) :
                LET ms == Get(Scores, MODELS[i][1], <<>>)
                IN  /\ j <= Len(ms)
                    /\ ms[j][2] # None
                    /\ 100 * ms[j][2][1] >= thresholds.any_single_axis}
      DueModels == {i \in 1..Len(MODELS) :
                      Get(comp.averages, MODELS[i][1], 0) >= thresholds.model_average}
      nOverall == IF comp.overall >= thresholds.overall_pressure THEN 1 ELSE 0
      nPpi == IF Get(comp.averages, "narcs", 0) >= thresholds.ppi_score THEN 1 ELSE 0
  IN  /\ \A i \in 1..Len(MODELS) : Len(Get(Scores, MODELS[i][1], <<>>)) <= 7
      /\ Cardinality(AlertsWhere(IsOverall)) = nOverall
      /\ Cardinality(AlertsWhere(IsPpi)) = nPpi
      /\ \A p \in Due :
           LET ak == Get(Scores, MODELS[p[1]][1], <<>>)[p[2]][1]
               IsIt(a) == a.type = "axis" /\ a.model = MODELS[p[1]][2].name /\ a.axis = ak
           IN  Cardinality(AlertsWhere(IsIt)) = 1
      /\ \A i \in DueModels :
           LET IsIt(a) == a.type = "model" /\ a.model = MODELS[i][2].name
           IN  Cardinality(AlertsWhere(IsIt)) = 1
      /\ Len(alerts) = nOverall + nPpi + Cardinality(Due) + Cardinality(DueModels)

\* C2 witness: all four kinds of alert in one list, a model having both its
\* axis alerts and its average alert, and an axis the registry does not
\* declare alerting too
AllFourRulesFire ==
  /\ \E i, j, k, l \in 1..Len(alerts) :
       /\ alerts[i].type = "overall" /\ alerts[j].type = "ppi"
       /\ alerts[k].type = "axis" /\ alerts[l].type = "model"
       /\ alerts[k].model = alerts[l].model
  /\ \E k \in 1..Len(alerts) : alerts[k].type = "axis" /\ alerts[k].axis = "zz"

\* C3: an alert is critical exactly when the value it reports is >= 8
\* (overall), >= 8 (ppi), >= 9 (an axis score) or >= 8.5 (a model average),
\* and a warning otherwise, under every threshold set.
SeverityFixedByValue ==
  \A i \in 1..Len(alerts) :
    LET a == alerts[i]
        crit == \/ a.type = "overall" /\ a.value >= 800
                \/ a.type = "ppi" /\ a.value >= 800
                \/ a.type = "axis" /\ a.value >= 9
                \/ a.type = "model" /\ a.value >= 850
    IN  /\ a.level \in {"critical", "warning"}
        /\ a.level = "critical" <=> crit
        /\ a.type = "overall" => a.value = comp.overall
        /\ a.type = "ppi" => a.value = comp.ppi

\* C3 witness: under the lenient limits, warnings below and criticals above
\* the fixed boundaries, in one list
SeverityMixUnderLenientLimits ==
  /\ thresholds = LenientThresholds
  /\ \E i, j \in 1..Len(alerts) :
       /\ alerts[i].type = "axis" /\ alerts[i].level = "critical"
       /\ alerts[j].type = "model" /\ alerts[j].level = "warning"
       /\ alerts[j].value < DefaultThresholds.model_average

\* every axis of every model of the input is null (or there is none)
AllNull ==
  \A i \in 1..Len(Scores) : \A j \in 1..Len(Scores[i][2]) : Scores[i][2][j][2] = None

\* C4: for an input whose scores are missing, empty or all null, every
\* average is 0, the composite is 0, the tier is low, there is no dominant
\* phase, and the default thresholds give no alert.
EmptyInputIsQuiet ==
  AllNull =>
    /\ \A i \in 1..Len(MODELS) : Get(comp.averages, MODELS[i][1], -1) = 0
    /\ comp.overall = 0
    /\ comp.ppi = 0
    /\ comp.level = "low"
    /\ comp.dominant_trapn = None
    /\ thresholds = DefaultThresholds => alerts = <<>>

\* C4 witness: a trapn axis present and null, after a call with the defaults
NullTrapnAxisEvaluated ==
  /\ AllNull
  /\ calls > 0
  /\ Get(Scores, "trapn", <<>>) # <<>>
  /\ thresholds = DefaultThresholds
  /\ alerts = <<>>

\* the place of an alert in the order: overall, ppi, then per registry
\* model its axis alerts and then its average alert
AlertRank(a) ==
  IF a.type = "overall" THEN 0
  ELSE IF a.type = "ppi" THEN 1
  ELSE LET m == CHOOSE i \in 1..Len(MODELS) : MODELS[i][2].name = a.model
       IN  2 * m + (IF a.type = "axis" THEN 0 ELSE 1)

\* C5: the overall alert comes first, then the ppi alert, then the alerts of
\* each model in registry order, a model's axis alerts before its average alert.
AlertsInRegistryOrder ==
  /\ \A i \in 1..Len(alerts) :
       alerts[i].type \in {"axis", "model"} =>
         \E m \in 1..Len(MODELS) : MODELS[m][2].name = alerts[i].model
  /\ \A i, j \in 1..Len(alerts) : i < j =>
       /\ AlertRank(alerts[i]) <= AlertRank(alerts[j])
       /\ AlertRank(alerts[i]) = AlertRank(alerts[j]) => alerts[i].type = "axis"

\* C5 witness: an input that names trapn before narcs, both alerting with
\* axis and average alerts, under an overall and a ppi alert
OrderedAlertsOfTwoModels ==
  /\ IndexOf(Scores, "trapn") > 0
  /\ IndexOf(Scores, "trapn") < IndexOf(Scores, "narcs")
  /\ \E i, j, k, l \in 1..Len(alerts) :
       /\ alerts[i].type = "axis" /\ alerts[i].model = "NARCS"
       /\ alerts[j].type = "model" /\ alerts[j].model = "NARCS"
       /\ alerts[k].type = "axis" /\ alerts[k].model = "TRAP-N"
       /\ alerts[l].type = "model" /\ alerts[l].model = "TRAP-N"

\* C6: the tier is high iff the composite is >= 7, moderate iff it is in
\* [4, 7), low iff it is < 4, and the verdict text is the tier's.
TierByComposite ==
  /\ comp.level \in {"high", "moderate", "low"}
  /\ comp.level = "high" <=> comp.overall >= 700
  /\ comp.level = "moderate" <=> (comp.overall >= 400 /\ comp.overall < 700)
  /\ comp.level = "low" <=> comp.overall < 400
  /\ comp.level = "high" =>
       comp.verdict = "HIGH PRESSURE - conditions ripe for influence operation"
  /\ comp.level = "moderate" =>
       comp.verdict = "MODERATE PRESSURE - monitor closely, seeding possible"
  /\ comp.level = "low" =>
       comp.verdict = "LOW PRESSURE - organic activity likely"

\* C6 witness: a composite of exactly 7.00, classified high
CompositeExactlySeven ==
  comp.overall = 700 /\ comp.level = "high" /\ calls > 0

\* C7: when a call's input is the previous call's input with one axis score
\* of one registry model raised, its composite is >= the previous composite.
CompositeMonotone ==
  before.rel = "raised" => comp.overall >= before.comp.overall

\* C7 witness: a raised axis score that raised the composite
RaisedScoreRaisedComposite ==
  before.rel = "raised" /\ comp.overall > before.comp.overall

\* C8: when a call's input differs from the previous call's input only under
\* models the registry does not declare, compute and check_thresholds return
\* what they returned before; and a registry model absent from the input has
\* average 0 and no axis alert.
UnregisteredModelsIgnored ==
  /\ before.rel = "unregistered" => (comp = before.comp /\ alerts = before.alerts)
  /\ \A i \in 1..Len(MODELS) :
       ~Has(Scores, MODELS[i][1]) =>
         /\ Get(comp.averages, MODELS[i][1], -1) = 0
         /\ \A k \in 1..Len(alerts) :
              alerts[k].type = "axis" => alerts[k].model # MODELS[i][2].name

\* C8 witness: an unregistered model scored 9 next to alerting registry
\* models, and a registry model absent from the input
UnregisteredScoreNextToAlerts ==
  /\ before.rel = "unregistered"
  /\ Get(Get(Scores, "other", <<>>), "x", None) = Num(9)
  /\ alerts # <<>>
  /\ \E i \in 1..Len(MODELS) : ~Has(Scores, MODELS[i][1])

(***************************************************************************)
(* Properties of the feed scanner's state                                  *)
(***************************************************************************)
\* C9: no two monitors of the registry have the same id, and remove_monitor
\* removes at most one monitor.
MonitorIdsUnique ==
  /\ \A i, j \in 1..Len(monitors) : i # j => monitors[i].id # monitors[j].id
  /\ removed <= 1

\* the last n elements of a list (all of it when it is shorter)
LastN(l, n) == IF Len(l) > n THEN SubSeq(l, Len(l) - n + 1, Len(l)) ELSE l

\* C10: the stored hash list has no duplicates and at most MAX_SEEN entries,
\* it is the most recent MAX_SEEN hashes that a mark found absent, in the
\* order they were marked, it holds the hash of the text marked last, and
\* check_seen on that text, however padded, answers True.
SeenStoreBoundedFifo ==
  /\ Cardinality({seen[i] : i \in 1..Len(seen)}) = Len(seen)
  /\ Len(seen) <= MAX_SEEN
  /\ seen = LastN(appended, MAX_SEEN)
  /\ lastText # <<>> => Contains(seen, content_hash(lastText))
  /\ (checked # <<>> /\ lastText # <<>> /\ Strip(checked) = Strip(lastText)) => found

\* C10 witness: more than MAX_SEEN hashes were appended, the oldest text was
\* evicted and marked again, and a check of the last text, padded otherwise
\* than it was marked, answered True
EvictedTextMarkedAgain ==
  /\ Len(appended) > MAX_SEEN + 1
  /\ Len(seen) = MAX_SEEN
  /\ seen[Len(seen)] = content_hash(<<"", 1>>)
  /\ lastText # <<>> /\ checked # <<>>
  /\ checked # lastText /\ Strip(checked) = Strip(lastText)
  /\ found

====
